---- MODULE Spec2Model ----
(***************************************************************************)
(* Session/credential lifecycle of statul-backend:                         *)
(*   src/service/credential.py  Credential, get_current_user               *)
(* The Redis server, the JWT library and the user table are modelled by    *)
(* what the calls made in credential.py do on them.  Request handlers are  *)
(* coroutines on one event loop: every await is a suspension point, so a   *)
(* handler is a sequence of atomic steps, one per await.  A store call      *)
(* either is answered (up) or raises the client's connection error.        *)
(***************************************************************************)
EXTENDS Integers, FiniteSets, Sequences, TLC

\* ------------------------------------------------------------ bounds
TicksPerSec == 2            \* clock resolution: ticks in one second
MaxTime == 2                \* the clock stops after this many ticks
NReq == 2                   \* request handlers that can be in flight at once
MaxOps == 3                 \* requests served in one run
MaxValue == 2               \* largest survey_value

MaxDur == TicksPerSec       \* longest expires_delta, in ticks
MaxExp == (MaxTime + MaxDur) \div TicksPerSec

Users == {"u1", "u2"}
NoUser == "none"
Reqs == 1..NReq
Durations == 1..MaxDur      \* expires_delta > 0, in ticks
NoDue == 0 - 1                \* no registration in force

\* A JWT is modelled by what HS256 protects: the claims and whether the
\* signature verifies under JWT_SECRET_KEY.  exp is in whole seconds.
Tokens == [sub : Users \cup {NoUser}, exp : 0..MaxExp, sig : {"good", "bad"}]
NoToken == [sub |-> NoUser, exp |-> 0, sig |-> "none"]
\* the tokens create_access_token can hand to register_token
SessionTokens == {t \in Tokens : t.sig = "good" /\ t.sub \in Users}

VARIABLES
  now,        \* wall clock, in ticks
  userHash,   \* Redis hash "user": token -> user id
  keyExpiry,  \* Redis key expiry table: top-level key -> deadline
  users,      \* ids with a row in the user table
  pc,         \* per request: position in its handler
  op,         \* per request: "login", "logout", "auth" or "none"
  tok,        \* per request: the token it works on
  uid,        \* per request: user_id argument / payload "sub"
  dur,        \* per request: expires_delta of a login
  outcome,    \* per request: what the caller sees once pc = "done"
  why,        \* per request: the internal cause of a failure (not sent)
  pre,        \* per request: was the record stored when its store call ran
  afterLogout,\* per auth request: started after a completed logout of tok,
              \*   with no registration of tok since
  ttlDue,     \* per token: when the ttl of its last registration runs out
  revoked,    \* tokens whose last store event is a completed hdel
  chain,      \* <<l, a>>: login l just completed, auth a follows undisturbed
  started,    \* requests started so far
  calls,      \* per request: the store and database calls it has made
  post,       \* per auth request: was the record stored when it returned
  places,     \* place table: place_id -> row
  spc,        \* per survey request: position in survey_place
  sreq,       \* per survey request: place_id, survey_type, survey_value
  smodel,     \* per survey request: place_model, the row it loaded
  sout,       \* per survey request: status the caller sees
  slog        \* per survey request: the database calls it has made

store == <<userHash, keyExpiry>>
env == <<now, users>>
locals == <<pc, op, tok, uid, dur, outcome, why, pre>>
credential == <<now, userHash, keyExpiry, users, pc, op, tok, uid, dur,
                outcome, why, pre, afterLogout, ttlDue, revoked, chain,
                started, calls, post>>
survey == <<places, spc, sreq, smodel, sout, slog>>
vars == <<credential, survey>>

\* ------------------------------------------------------------ responses
NoOutcome == [status |-> 0, detail |-> "", header |-> "", user |-> NoUser]
Ok(u) == [status |-> 200, detail |-> "", header |-> "", user |-> u]
\* credentials_exception
CredentialsException ==
  [status |-> 401, detail |-> "Could not validate credentials",
   header |-> "Bearer", user |-> NoUser]
\* an exception of the Redis client that no handler catches
StoreUnavailable ==
  [status |-> 500, detail |-> "ConnectionError", header |-> "", user |-> NoUser]

\* ------------------------------------------------------------ JWT
\* jwt.encode: a datetime exp becomes a NumericDate, whole seconds
NumericDate(ticks) == ticks \div TicksPerSec

create_access_token_wrong_sub(data, expires_delta) ==
  [sub |-> CHOOSE u \in Users : u /= data.sub,
   exp |-> NumericDate(now + expires_delta), sig |-> "good"]

create_access_token(data, expires_delta) ==
  [sub |-> data.sub, exp |-> NumericDate(now + expires_delta), sig |-> "good"]

jwt_decode_no_exp_check(t) ==
  IF t.sig /= "good" THEN [ok |-> FALSE, err |-> "InvalidToken", sub |-> NoUser]
  ELSE [ok |-> TRUE, err |-> "", sub |-> t.sub]

\* jwt.decode: verify the signature, then exp against the clock
jwt_decode(t) ==
  IF t.sig /= "good" THEN [ok |-> FALSE, err |-> "InvalidToken", sub |-> NoUser]
  ELSE IF t.exp * TicksPerSec <= now
       THEN [ok |-> FALSE, err |-> "Expired", sub |-> NoUser]
       ELSE [ok |-> TRUE, err |-> "", sub |-> t.sub]

\* ------------------------------------------------------------ Redis
HashKey == [name |-> "user", token |-> NoToken]
TokenKey(t) == [name |-> "", token |-> t]
KeyExists(h, k) == k = HashKey /\ DOMAIN h /= {}

Put(f, k, v) == [x \in DOMAIN f \cup {k} |-> IF x = k THEN v ELSE f[x]]
Drop(f, k) == [x \in DOMAIN f \ {k} |-> f[x]]
Empty == [x \in {} |-> NoUser]

\* HSET user <token> <user_id>
hset(h, field, value) == Put(h, field, value)
\* HDEL user <token>; a hash without fields is no key any more
hdel_noop(h, field) == h
hdel_all(h, field) == Empty
hdel(h, field) == Drop(h, field)
\* HEXISTS user <token>
hexists_any(h, field) == TRUE
hexists(h, field) == field \in DOMAIN h
\* EXPIRE <key> <ttl>: sets a deadline on an existing key, else does nothing
expire_whole_hash(h, e, k, ttl) == Put(e, HashKey, now + ttl)
expire(h, e, k, ttl) == IF KeyExists(h, k) THEN Put(e, k, now + ttl) ELSE e
\* keys whose deadline has come are evicted
Evicted(e, t) == {k \in DOMAIN e : e[k] <= t}

\* DatabaseUser.get(id=...): the row, or None
DatabaseUser_get(id) == IF id \in users THEN id ELSE NoUser

\* ------------------------------------------------------------ places
\* src/router/mapfind.py: MapFind.survey_place on the place table
Places == {"p1", "p2"}
SurveyTypes == {"safe_rating", "sleep_available", "other"}
SurveyValues == 1..MaxValue
NoSurvey == [place_id |-> "", survey_type |-> "", survey_value |-> 0]
\* the row get_or_create inserts for a place seen for the first time
NewRow == [safe_rating |-> 0, sleep_available |-> 0]

InitSurvey ==
  /\ places = [p \in {} |-> NewRow]
  /\ spc = [r \in Reqs |-> "idle"]
  /\ sreq = [r \in Reqs |-> NoSurvey]
  /\ smodel = [r \in Reqs |-> NewRow]
  /\ sout = [r \in Reqs |-> 0]
  /\ slog = [r \in Reqs |-> <<>>]

survey_apply_lenient(row, type, value) ==
  IF type = "safe_rating"
  THEN [ok |-> TRUE, row |-> [row EXCEPT !.safe_rating = @ + value]]
  ELSE IF type = "sleep_available"
       THEN [ok |-> TRUE, row |-> [row EXCEPT !.sleep_available = value]]
       ELSE [ok |-> TRUE, row |-> row]

\* survey_place between get and save: the branch on survey_type
survey_apply(row, type, value) ==
  IF type = "safe_rating"
  THEN [ok |-> TRUE, row |-> [row EXCEPT !.safe_rating = @ + value]]
  ELSE IF type = "sleep_available"
       THEN [ok |-> TRUE, row |-> [row EXCEPT !.sleep_available = value]]
       ELSE [ok |-> FALSE, row |-> row]

\* place_model.save(): the row is written back with all its fields
save(table, id, row) == [table EXCEPT ![id] = row]

\* get_place_detail: PlaceDatabase.get_or_create for a place not stored yet
GetPlaceDetail(p) ==
  /\ p \notin DOMAIN places
  /\ places' = Put(places, p, NewRow)
  /\ UNCHANGED <<spc, sreq, smodel, sout, slog, credential>>

\* survey_place is called
SurveyPlace(r, p, type, value) ==
  /\ spc[r] = "idle"
  /\ spc' = [spc EXCEPT ![r] = "exists"]
  /\ sreq' = [sreq EXCEPT ![r] = [place_id |-> p, survey_type |-> type,
                                  survey_value |-> value]]
  /\ UNCHANGED <<places, smodel, sout, slog, credential>>

\* await PlaceDatabase.exists(place_id=place_id), 404 when there is none
SurveyExists(r) ==
  /\ spc[r] = "exists"
  /\ slog' = [slog EXCEPT ![r] = Append(@, "exists")]
  /\ IF sreq[r].place_id \notin DOMAIN places
     THEN /\ spc' = [spc EXCEPT ![r] = "done"]
          /\ sout' = [sout EXCEPT ![r] = 404]
     ELSE /\ spc' = [spc EXCEPT ![r] = "get"]
          /\ UNCHANGED sout
  /\ UNCHANGED <<places, sreq, smodel, credential>>

\* await PlaceDatabase.get(place_id=place_id), then the branch on survey_type
SurveyGet(r) ==
  /\ spc[r] = "get"
  /\ slog' = [slog EXCEPT ![r] = Append(@, "get")]
  /\ LET place_model == places[sreq[r].place_id]
         res == survey_apply(place_model, sreq[r].survey_type,
                             sreq[r].survey_value)
     IN IF res.ok
        THEN /\ smodel' = [smodel EXCEPT ![r] = res.row]
             /\ spc' = [spc EXCEPT ![r] = "save"]
             /\ UNCHANGED sout
        ELSE /\ spc' = [spc EXCEPT ![r] = "done"]
             /\ sout' = [sout EXCEPT ![r] = 400]
             /\ UNCHANGED smodel
  /\ UNCHANGED <<places, sreq, credential>>

\* await place_model.save(), then the 200 response
SurveySave(r) ==
  /\ spc[r] = "save"
  /\ slog' = [slog EXCEPT ![r] = Append(@, "save")]
  /\ places' = save(places, sreq[r].place_id, smodel[r])
  /\ spc' = [spc EXCEPT ![r] = "done"]
  /\ sout' = [sout EXCEPT ![r] = 200]
  /\ UNCHANGED <<sreq, smodel, credential>>

NextSurvey ==
  \/ \E p \in Places : GetPlaceDetail(p)
  \/ \E r \in Reqs, p \in Places, type \in SurveyTypes, value \in SurveyValues :
       SurveyPlace(r, p, type, value)
  \/ \E r \in Reqs : SurveyExists(r)
  \/ \E r \in Reqs : SurveyGet(r)
  \/ \E r \in Reqs : SurveySave(r)

\* ------------------------------------------------------------ initial state
Init ==
  /\ now = 0
  /\ userHash = Empty
  /\ keyExpiry = [k \in {} |-> 0]
  /\ users = Users
  /\ pc = [r \in Reqs |-> "idle"]
  /\ op = [r \in Reqs |-> "none"]
  /\ tok = [r \in Reqs |-> NoToken]
  /\ uid = [r \in Reqs |-> NoUser]
  /\ dur = [r \in Reqs |-> 0]
  /\ outcome = [r \in Reqs |-> NoOutcome]
  /\ why = [r \in Reqs |-> ""]
  /\ pre = [r \in Reqs |-> FALSE]
  /\ afterLogout = [r \in Reqs |-> FALSE]
  /\ ttlDue = [t \in SessionTokens |-> NoDue]
  /\ revoked = {}
  /\ chain = <<0, 0>>
  /\ started = 0
  /\ calls = [r \in Reqs |-> <<>>]
  /\ post = [r \in Reqs |-> FALSE]
  /\ InitSurvey

\* a handler ends: the caller gets `res`
Finish(r, res, cause) ==
  /\ pc' = [pc EXCEPT ![r] = "done"]
  /\ outcome' = [outcome EXCEPT ![r] = res]
  /\ why' = [why EXCEPT ![r] = cause]

\* a new request is served by the first free handler
Accepts(r) ==
  /\ pc[r] = "idle"
  /\ \A q \in Reqs : q < r => pc[q] /= "idle"
  /\ started < MaxOps

KeepChain(r) == IF chain[2] = r THEN chain ELSE <<0, 0>>

\* ------------------------------------------------------------ login
register_token_swallows == Ok(NoUser)

\* register_token and delete_token catch nothing: the connection error of a
\* store call leaves them as it was raised
register_token_raises == StoreUnavailable
delete_token_raises == StoreUnavailable

\* the login route: create_access_token({"sub": u}, d), then register_token
Login(r, u, d) ==
  /\ Accepts(r)
  /\ started' = started + 1
  /\ UNCHANGED <<calls, post, survey>>
  /\ pc' = [pc EXCEPT ![r] = "register_hset"]
  /\ op' = [op EXCEPT ![r] = "login"]
  /\ tok' = [tok EXCEPT ![r] = create_access_token([sub |-> u], d)]
  /\ uid' = [uid EXCEPT ![r] = u]
  /\ dur' = [dur EXCEPT ![r] = d]
  /\ chain' = <<0, 0>>
  /\ UNCHANGED <<store, env, outcome, why, pre, afterLogout, ttlDue, revoked>>

\* register_token, first await: hset("user", token, user_id)
RegisterHset(r, up) ==
  /\ UNCHANGED <<started, survey>>
  /\ calls' = [calls EXCEPT ![r] = Append(@, "hset")]
  /\ UNCHANGED post
  /\ pc[r] = "register_hset"
  /\ chain' = <<0, 0>>
  /\ IF up
     THEN /\ userHash' = hset(userHash, tok[r], uid[r])
          /\ pre' = [pre EXCEPT ![r] = tok[r] \in DOMAIN userHash]
          /\ pc' = [pc EXCEPT ![r] = "register_expire"]
          /\ ttlDue' = [ttlDue EXCEPT ![tok[r]] = now + dur[r]]
          /\ revoked' = revoked \ {tok[r]}
          /\ afterLogout' = [a \in Reqs |->
                               IF tok[a] = tok[r] THEN FALSE ELSE afterLogout[a]]
          /\ UNCHANGED <<outcome, why>>
     ELSE /\ Finish(r, register_token_raises, "StoreUnavailable")
          /\ UNCHANGED <<userHash, pre, ttlDue, revoked, afterLogout>>
  /\ UNCHANGED <<keyExpiry, env, op, tok, uid, dur>>

\* register_token, second await: expire(token, expire)
RegisterExpire(r, up) ==
  /\ UNCHANGED <<started, survey>>
  /\ calls' = [calls EXCEPT ![r] = Append(@, "expire")]
  /\ UNCHANGED post
  /\ pc[r] = "register_expire"
  /\ IF up
     THEN /\ keyExpiry' = expire(userHash, keyExpiry, TokenKey(tok[r]), dur[r])
          /\ Finish(r, Ok(uid[r]), "")
          /\ ttlDue' = [ttlDue EXCEPT ![tok[r]] = now + dur[r]]
          /\ chain' = <<r, 0>>
     ELSE /\ Finish(r, register_token_raises, "StoreUnavailable")
          /\ chain' = <<0, 0>>
          /\ UNCHANGED <<keyExpiry, ttlDue>>
  /\ UNCHANGED <<userHash, env, op, tok, uid, dur, pre, afterLogout, revoked>>

\* ------------------------------------------------------------ logout
\* the logout route: delete_token(token)
Logout(r, t) ==
  /\ Accepts(r)
  /\ started' = started + 1
  /\ UNCHANGED <<calls, post, survey>>
  /\ pc' = [pc EXCEPT ![r] = "delete_hdel"]
  /\ op' = [op EXCEPT ![r] = "logout"]
  /\ tok' = [tok EXCEPT ![r] = t]
  /\ chain' = <<0, 0>>
  /\ UNCHANGED <<store, env, uid, dur, outcome, why, pre, afterLogout, ttlDue,
                 revoked>>

\* delete_token: hdel("user", token)
DeleteToken(r, up) ==
  /\ UNCHANGED <<started, survey>>
  /\ calls' = [calls EXCEPT ![r] = Append(@, "hdel")]
  /\ UNCHANGED post
  /\ pc[r] = "delete_hdel"
  /\ chain' = <<0, 0>>
  /\ IF up
     THEN /\ userHash' = hdel(userHash, tok[r])
          /\ keyExpiry' = IF DOMAIN userHash' = {}
                          THEN Drop(keyExpiry, HashKey) ELSE keyExpiry
          /\ pre' = [pre EXCEPT ![r] = tok[r] \in DOMAIN userHash]
          /\ Finish(r, Ok(NoUser), "")
          /\ ttlDue' = [ttlDue EXCEPT ![tok[r]] = NoDue]
          /\ revoked' = revoked \cup {tok[r]}
     ELSE /\ Finish(r, delete_token_raises, "StoreUnavailable")
          /\ UNCHANGED <<store, pre, ttlDue, revoked>>
  /\ UNCHANGED <<env, op, tok, uid, dur, afterLogout>>

\* ------------------------------------------------------------ authenticate
is_valid_token_always(t) == TRUE

\* is_valid_token
is_valid_token(t) == hexists(userHash, t)

\* get_current_user up to its first await: decode, read "sub"
Decoded401_none(t) == ""
Decoded401(t) ==
  LET payload == jwt_decode(t) IN
  IF ~payload.ok THEN payload.err
  ELSE IF payload.sub = NoUser THEN "InvalidToken" ELSE ""

Authenticate_purging(r, t) ==
  /\ Accepts(r)
  /\ started' = started + 1
  /\ UNCHANGED <<calls, post, survey>>
  /\ op' = [op EXCEPT ![r] = "auth"]
  /\ tok' = [tok EXCEPT ![r] = t]
  /\ afterLogout' = [afterLogout EXCEPT ![r] = t \in revoked]
  /\ chain' = IF chain[1] /= 0 /\ chain[2] = 0 /\ tok[chain[1]] = t
              THEN <<chain[1], r>> ELSE <<0, 0>>
  /\ IF Decoded401(t) /= ""
     THEN /\ Finish(r, CredentialsException, Decoded401(t))
          /\ userHash' = hdel(userHash, t)
          /\ UNCHANGED uid
     ELSE /\ pc' = [pc EXCEPT ![r] = "is_valid_token"]
          /\ uid' = [uid EXCEPT ![r] = jwt_decode(t).sub]
          /\ UNCHANGED <<userHash, outcome, why>>
  /\ UNCHANGED <<keyExpiry, env, dur, pre, ttlDue, revoked>>

Authenticate(r, t) ==
  /\ Accepts(r)
  /\ started' = started + 1
  /\ UNCHANGED <<calls, post, survey>>
  /\ op' = [op EXCEPT ![r] = "auth"]
  /\ tok' = [tok EXCEPT ![r] = t]
  /\ afterLogout' = [afterLogout EXCEPT ![r] = t \in revoked]
  /\ chain' = IF chain[1] /= 0 /\ chain[2] = 0 /\ tok[chain[1]] = t
              THEN <<chain[1], r>> ELSE <<0, 0>>
  /\ IF Decoded401(t) /= ""
     THEN /\ Finish(r, CredentialsException, Decoded401(t))
          /\ UNCHANGED uid
     ELSE /\ pc' = [pc EXCEPT ![r] = "is_valid_token"]
          /\ uid' = [uid EXCEPT ![r] = jwt_decode(t).sub]
          /\ UNCHANGED <<outcome, why>>
  /\ UNCHANGED <<store, env, dur, pre, ttlDue, revoked>>

\* get_current_user, await credential.is_valid_token(token=session_token)
NotActiveResponse_403 ==
  [status |-> 403, detail |-> "Not authenticated", header |-> "", user |-> NoUser]

NotActiveResponse == CredentialsException

AuthIsValidToken(r, up) ==
  /\ UNCHANGED <<started, survey>>
  /\ calls' = [calls EXCEPT ![r] = Append(@, "hexists")]
  /\ UNCHANGED post
  /\ pc[r] = "is_valid_token"
  /\ chain' = KeepChain(r)
  /\ IF up
     THEN /\ pre' = [pre EXCEPT ![r] = tok[r] \in DOMAIN userHash]
          /\ IF ~is_valid_token(tok[r])
             THEN Finish(r, NotActiveResponse, "NotActive")
             ELSE /\ pc' = [pc EXCEPT ![r] = "user_get"]
                  /\ UNCHANGED <<outcome, why>>
     ELSE /\ Finish(r, StoreUnavailable, "StoreUnavailable")
          /\ UNCHANGED pre
  /\ UNCHANGED <<store, env, op, tok, uid, dur, afterLogout, ttlDue, revoked>>

\* get_current_user, await DatabaseUser.get(id=user_id), and the return
AuthUserGet(r) ==
  /\ UNCHANGED <<started, survey>>
  /\ calls' = [calls EXCEPT ![r] = Append(@, "get")]
  /\ post' = [post EXCEPT ![r] = tok[r] \in DOMAIN userHash]
  /\ pc[r] = "user_get"
  /\ chain' = KeepChain(r)
  /\ LET user == DatabaseUser_get(uid[r]) IN
     IF user = NoUser
     THEN Finish(r, CredentialsException, "UserNotFound")
     ELSE Finish(r, Ok(user), "")
  /\ UNCHANGED <<store, env, op, tok, uid, dur, pre, afterLogout, ttlDue,
                 revoked>>

\* the response is sent; the slot serves the next request
Return(r) ==
  /\ UNCHANGED <<started, survey>>
  /\ calls' = [calls EXCEPT ![r] = <<>>]
  /\ post' = [post EXCEPT ![r] = FALSE]
  /\ pc[r] = "done"
  /\ pc' = [pc EXCEPT ![r] = "idle"]
  /\ op' = [op EXCEPT ![r] = "none"]
  /\ tok' = [tok EXCEPT ![r] = NoToken]
  /\ uid' = [uid EXCEPT ![r] = NoUser]
  /\ dur' = [dur EXCEPT ![r] = 0]
  /\ outcome' = [outcome EXCEPT ![r] = NoOutcome]
  /\ why' = [why EXCEPT ![r] = ""]
  /\ pre' = [pre EXCEPT ![r] = FALSE]
  /\ afterLogout' = [afterLogout EXCEPT ![r] = FALSE]
  /\ chain' = <<0, 0>>
  /\ UNCHANGED <<store, env, ttlDue, revoked>>

\* ------------------------------------------------------------ environment
\* time passes; Redis evicts the keys whose deadline has come
Tick ==
  /\ now < MaxTime
  /\ now' = now + 1
  /\ LET gone == Evicted(keyExpiry, now + 1) IN
     /\ userHash' = IF HashKey \in gone THEN Empty ELSE userHash
     /\ keyExpiry' = [k \in DOMAIN keyExpiry \ gone |-> keyExpiry[k]]
  /\ chain' = <<0, 0>>
  /\ UNCHANGED <<users, locals, afterLogout, ttlDue, revoked, started>>
  /\ UNCHANGED <<calls, post, survey>>

\* a user row is deleted from the user table
DeleteUser(u) ==
  /\ users = Users
  /\ users' = users \ {u}
  /\ chain' = <<0, 0>>
  /\ UNCHANGED <<now, store, locals, afterLogout, ttlDue, revoked, started>>
  /\ UNCHANGED <<calls, post, survey>>

\* the signed tokens a client can present: those stored, revoked or signed by
\* a login in this run (HS256 is deterministic: equal claims, equal token)
Known ==
  DOMAIN userHash \cup revoked
    \cup {tok[r] : r \in {x \in Reqs : op[x] = "login"}}
\* a token whose signature does not verify, and a signed one without "sub"
ForgedToken == [sub |-> "u1", exp |-> MaxExp, sig |-> "bad"]
NoSubToken == [sub |-> NoUser, exp |-> MaxExp, sig |-> "good"]
Presented == Known \cup {ForgedToken, NoSubToken}

Next ==
  \/ \E r \in Reqs, u \in Users, d \in Durations : Login(r, u, d)
  \/ \E r \in Reqs, up \in BOOLEAN : RegisterHset(r, up)
  \/ \E r \in Reqs, up \in BOOLEAN : RegisterExpire(r, up)
  \/ \E r \in Reqs, t \in Known : Logout(r, t)
  \/ \E r \in Reqs, up \in BOOLEAN : DeleteToken(r, up)
  \/ \E r \in Reqs, t \in Presented : Authenticate(r, t)
  \/ \E r \in Reqs, up \in BOOLEAN : AuthIsValidToken(r, up)
  \/ \E r \in Reqs : AuthUserGet(r)
  \/ \E r \in Reqs : Return(r)
  \/ Tick
  \/ \E u \in Users : DeleteUser(u)

Spec == Init /\ [][Next]_vars

\* the place surveys on their own
SpecSurvey == Init /\ [][NextSurvey]_vars

\* ============================================================ claims
IsAuthDone(r) == pc[r] = "done" /\ op[r] = "auth"
IsLoginDone(r) == pc[r] = "done" /\ op[r] = "login"
IsLogoutDone(r) == pc[r] = "done" /\ op[r] = "logout"
\* auth request a ran, start to end, right after login l completed, nothing
\* having happened in between, and no logout of the token completed since
\* the login stored it
RightAfterLogin(a) ==
  /\ IsAuthDone(a)
  /\ chain[1] /= 0
  /\ chain[2] = a
  /\ tok[a] \notin revoked
  /\ why[a] /= "StoreUnavailable"
  /\ uid[chain[1]] \in users

\* C1 (as stated): for every existing user u and every duration d > 0, the
\* token of login(u, d) passes authenticate immediately afterwards and
\* resolves to exactly u.
C1_AnyDuration ==
  \A a \in Reqs : RightAfterLogin(a) => outcome[a] = Ok(uid[chain[1]])

\* C1 (amended): the same, provided the expiry embedded in the token, the
\* signing time plus d cut down to whole seconds, is still ahead.
C1_LoginThenValidate ==
  \A a \in Reqs :
    (RightAfterLogin(a) /\ tok[a].exp * TicksPerSec > now)
      => outcome[a] = Ok(uid[chain[1]])

C1_Witness ==
  \E a \in Reqs :
    /\ RightAfterLogin(a)
    /\ tok[a].exp * TicksPerSec > now
    /\ outcome[a] = Ok(uid[chain[1]])

\* C2: an authenticate call on t that starts after logout(t) completed, with
\* no registration of t since, never succeeds, whatever t's signature and
\* embedded expiry.
C2_RevokedTokenFails ==
  \A a \in Reqs :
    (IsAuthDone(a) /\ afterLogout[a])
      => (outcome[a].status /= 200 /\ outcome[a].user = NoUser)

C2_Witness ==
  \E a \in Reqs :
    /\ IsAuthDone(a)
    /\ afterLogout[a]
    /\ tok[a].sig = "good"
    /\ tok[a].exp * TicksPerSec > now
    /\ why[a] = "NotActive"

\* C3: with the store available, a logout step succeeds whether or not the
\* record exists, leaves no record for its token and every other record as it
\* was; on a token without a record it changes nothing (so logout; logout
\* leaves the store as one logout does).
C3_LogoutIdempotent ==
  [][\A r \in Reqs :
       (/\ pc[r] = "delete_hdel"
        /\ pc'[r] = "done"
        /\ why'[r] /= "StoreUnavailable")
         => /\ outcome'[r].status = 200
            /\ tok[r] \notin DOMAIN userHash'
            /\ DOMAIN userHash' = DOMAIN userHash \ {tok[r]}
            /\ \A t \in DOMAIN userHash' : userHash'[t] = userHash[t]
            /\ (tok[r] \notin DOMAIN userHash => userHash' = userHash)]_vars

C3_Witness ==
  \E r \in Reqs :
    /\ IsLogoutDone(r)
    /\ ~pre[r]
    /\ tok[r] \in revoked
    /\ outcome[r].status = 200

\* C4: authenticate returns a user only along the path on which the token
\* decoded (good signature, expiry ahead, subject present) and then the store
\* held its record when queried, both in this call.
C4_BothChecks ==
  [][\A r \in Reqs :
       /\ (pc[r] = "idle" /\ pc'[r] = "is_valid_token")
            => /\ tok'[r].sig = "good"
               /\ tok'[r].exp * TicksPerSec > now
               /\ tok'[r].sub /= NoUser
       /\ (pc[r] /= "user_get" /\ pc'[r] = "user_get")
            => (pc[r] = "is_valid_token" /\ tok[r] \in DOMAIN userHash)
       /\ (op'[r] = "auth" /\ pc[r] /= "done" /\ outcome'[r].user /= NoUser)
            => pc[r] = "user_get"]_vars

C4_Witness ==
  \E r \in Reqs : IsAuthDone(r) /\ outcome[r].user /= NoUser /\ pre[r]

\* C5: an authenticate call on a token whose embedded expiry has elapsed
\* fails at once, also while the token's record is still stored.
C5_ExpiredFails ==
  [][\A r \in Reqs :
       (/\ pc[r] = "idle"
        /\ op'[r] = "auth"
        /\ tok'[r].exp * TicksPerSec <= now
        /\ tok'[r] \in DOMAIN userHash)
         => (pc'[r] = "done" /\ outcome'[r] = CredentialsException)]_vars

C5_Witness ==
  \E r \in Reqs :
    /\ IsAuthDone(r)
    /\ why[r] = "Expired"
    /\ tok[r] \in DOMAIN userHash
    /\ outcome[r].status = 401

\* C6: a login that failed with StoreUnavailable leaves no record of its
\* token in the store.
C6_NoPartialRegistration ==
  \A r \in Reqs :
    (IsLoginDone(r) /\ outcome[r] = StoreUnavailable)
      => ~hexists(userHash, tok[r])

\* C7: once the ttl of a token's last registration has elapsed, with no
\* logout, the store holds no record of the token.
C7_RecordExpiresWithTtl ==
  \A r \in Reqs :
    (/\ IsLoginDone(r)
     /\ outcome[r].status = 200
     /\ ttlDue[tok[r]] /= NoDue
     /\ now >= ttlDue[tok[r]])
      => ~hexists(userHash, tok[r])

\* C8: a record of t is stored iff t was registered, has not been revoked
\* since and the ttl of that registration has not elapsed (stated of the
\* tokens no login is in the middle of registering or has failed to).
Registering(r, t) ==
  /\ op[r] = "login"
  /\ tok[r] = t
  /\ pc[r] = "register_expire" \/ outcome[r] = StoreUnavailable

C8_RecordIffValid ==
  \A t \in SessionTokens :
    (\A r \in Reqs : ~Registering(r, t))
      => ((t \in DOMAIN userHash) <=> (ttlDue[t] /= NoDue /\ now < ttlDue[t]))

\* C9: two authenticate calls failing for different causes among
\* InvalidToken, Expired, NotActive and UserNotFound give the caller the same
\* response, the 401 credentials exception.
AuthCauses == {"InvalidToken", "Expired", "NotActive", "UserNotFound"}

C9_UniformFailure ==
  \A r1, r2 \in Reqs :
    (/\ IsAuthDone(r1) /\ IsAuthDone(r2)
     /\ why[r1] \in AuthCauses /\ why[r2] \in AuthCauses
     /\ why[r1] /= why[r2])
      => (outcome[r1] = outcome[r2] /\ outcome[r1].status = 401)

C9_Witness ==
  \E r1, r2 \in Reqs :
    /\ IsAuthDone(r1) /\ IsAuthDone(r2)
    /\ why[r1] = "UserNotFound"
    /\ why[r2] \in {"InvalidToken", "Expired", "NotActive"}
    /\ outcome[r1] = outcome[r2]

\* C10: an authenticate call during which the store is unavailable ends with
\* the same 401 response as the other failures.
C10_StoreDownIs401 ==
  \A r \in Reqs :
    (IsAuthDone(r) /\ why[r] = "StoreUnavailable")
      => outcome[r] = CredentialsException

\* C11: a login or logout whose store call failed ends with the service
\* failure the store call raised, not with success and not with the 401 of an
\* unauthenticated caller, after exactly one attempt of the call that failed;
\* no login or logout makes the same store call twice.
C11_StoreFailureSurfaced ==
  \A r \in Reqs :
    /\ (pc[r] = "done" /\ op[r] \in {"login", "logout"}
          /\ why[r] = "StoreUnavailable")
         => /\ outcome[r].status >= 500
            /\ outcome[r] /= CredentialsException
            /\ outcome[r].user = NoUser
            /\ calls[r] \in {<<"hset">>, <<"hset", "expire">>, <<"hdel">>}
    /\ op[r] \in {"login", "logout"}
         => \A i, j \in 1..Len(calls[r]) : calls[r][i] = calls[r][j] => i = j

C11_Witness ==
  \E r1, r2 \in Reqs :
    /\ IsLoginDone(r1) /\ why[r1] = "StoreUnavailable"
    /\ IsLogoutDone(r2) /\ why[r2] = "StoreUnavailable"
    /\ outcome[r1].status = 500 /\ outcome[r2].status = 500

\* C12: after a login has registered again a token that had a record, the
\* store holds one record of the token, for the subject just given, and the
\* deadline the store keeps for that record is the new ttl from now.
StoreDeadline(t) ==
  IF t \in DOMAIN userHash /\ HashKey \in DOMAIN keyExpiry
  THEN keyExpiry[HashKey] ELSE NoDue

C12_ReRegisterResetsTtl ==
  \A r \in Reqs :
    (/\ IsLoginDone(r)
     /\ outcome[r].status = 200
     /\ pre[r]
     /\ chain = <<r, 0>>
     /\ tok[r] \notin revoked)
      => /\ tok[r] \in DOMAIN userHash
         /\ userHash[tok[r]] = uid[r]
         /\ StoreDeadline(tok[r]) = now + dur[r]

\* C13: a store step of a login or logout on token t1 leaves the presence
\* and the subject of the record of every other token t2 as they were, and
\* the passing of time removes no record whose own ttl is still running.
C13_TokensIndependent ==
  [][/\ \A r \in Reqs :
          (/\ pc[r] \in {"register_hset", "register_expire", "delete_hdel"}
           /\ pc'[r] /= pc[r])
            => \A t2 \in SessionTokens \ {tok[r]} :
                 /\ (t2 \in DOMAIN userHash') <=> (t2 \in DOMAIN userHash)
                 /\ t2 \in DOMAIN userHash => userHash'[t2] = userHash[t2]
     /\ now' /= now
          => \A t2 \in DOMAIN userHash :
               (ttlDue[t2] = NoDue \/ ttlDue[t2] > now')
                 => (t2 \in DOMAIN userHash' /\ userHash'[t2] = userHash[t2])
    ]_vars

C13_Witness ==
  \E r \in Reqs :
    /\ IsLogoutDone(r)
    /\ pre[r]
    /\ tok[r] \notin DOMAIN userHash
    /\ \E t2 \in DOMAIN userHash : t2 /= tok[r] /\ t2.sub = tok[r].sub

\* C14: an authenticate call makes its calls in the order store check, user
\* lookup; it makes none when the token does not decode to a subject, makes
\* only the store check when the store has no record of the token or fails,
\* and makes the user lookup only after the store check found the record.
C14_ChecksInOrder ==
  \A r \in Reqs :
    op[r] = "auth"
      => /\ calls[r] \in {<<>>, <<"hexists">>, <<"hexists", "get">>}
         /\ why[r] \in {"InvalidToken", "Expired"} => calls[r] = <<>>
         /\ calls[r] /= <<>> => (tok[r].sig = "good" /\ tok[r].sub /= NoUser)
         /\ why[r] \in {"NotActive", "StoreUnavailable"}
              => calls[r] = <<"hexists">>
         /\ Len(calls[r]) = 2 => pre[r]

C14_Witness ==
  \E r1, r2 \in Reqs :
    /\ IsAuthDone(r1) /\ why[r1] \in {"InvalidToken", "Expired"}
    /\ calls[r1] = <<>>
    /\ IsAuthDone(r2) /\ why[r2] = "NotActive"
    /\ calls[r2] = <<"hexists">>

\* C15 (as stated): whenever authenticate returns a user, the record of its
\* token is in the store at the moment it returns.
C15_RecordPresentAtReturn ==
  \A r \in Reqs :
    (IsAuthDone(r) /\ outcome[r].user /= NoUser) => post[r]

\* C15 (amended): whenever authenticate returns a user, the record of its
\* token was in the store when authenticate queried it, and no logout of the
\* token had completed, unanswered by a registration, before the call began;
\* a logout completing between the store check and the return goes unseen.
C15_RecordPresentAtStoreCheck ==
  \A r \in Reqs :
    (IsAuthDone(r) /\ outcome[r].user /= NoUser)
      => (pre[r] /\ ~afterLogout[r])

C15_Witness ==
  \E r \in Reqs :
    /\ IsAuthDone(r)
    /\ outcome[r].user /= NoUser
    /\ pre[r]
    /\ ~post[r]
    /\ tok[r] \in revoked

\* C16: no step of an authenticate call, succeeding or failing, changes the
\* session store (records and deadlines) or the user table.
C16_AuthenticateReadOnly ==
  [][\A r \in Reqs :
       (op'[r] = "auth" /\ pc'[r] /= pc[r])
         => (userHash' = userHash /\ keyExpiry' = keyExpiry /\ users' = users)
    ]_vars

C16_Witness ==
  \E r1, r2 \in Reqs :
    /\ IsAuthDone(r1) /\ why[r1] \in {"Expired", "UserNotFound"}
    /\ tok[r1] \in DOMAIN userHash
    /\ IsAuthDone(r2) /\ outcome[r2].user /= NoUser
    /\ tok[r2] \in DOMAIN userHash

\* C17: once the surveys have all returned, the safe_rating of a place that
\* only safe_rating surveys were made on is the rating it was created with
\* plus the values of the surveys that returned 200.
Surveyed(p) ==
  {r \in Reqs : sreq[r].place_id = p /\ sout[r] = 200}

RECURSIVE SumValues(_)
SumValues(S) ==
  IF S = {} THEN 0
  ELSE LET r == CHOOSE x \in S : TRUE
       IN sreq[r].survey_value + SumValues(S \ {r})

C17_SafeRatingAccumulates ==
  \A p \in DOMAIN places :
    (/\ \A r \in Reqs : spc[r] \in {"idle", "done"}
     /\ \A r \in Surveyed(p) : sreq[r].survey_type = "safe_rating")
      => places[p].safe_rating = NewRow.safe_rating + SumValues(Surveyed(p))

\* C18: a survey whose place is not stored ends with 404 and one whose type
\* is neither safe_rating nor sleep_available ends with 400; neither reaches
\* save, and no step of a survey before its save changes the place table.
C18_ErrorsLeavePlaces ==
  [][\A r \in Reqs :
       /\ (spc[r] = "exists" /\ spc'[r] /= "exists"
             /\ sreq[r].place_id \notin DOMAIN places)
            => (spc'[r] = "done" /\ sout'[r] = 404)
       /\ (spc[r] = "get" /\ spc'[r] /= "get"
             /\ sreq[r].survey_type \notin {"safe_rating", "sleep_available"})
            => (spc'[r] = "done" /\ sout'[r] = 400)
       /\ (spc'[r] /= spc[r] /\ sout'[r] /= 200) => places' = places
       /\ sout'[r] \in {404, 400}
            => \A i \in 1..Len(slog'[r]) : slog'[r][i] /= "save"
    ]_vars

C18_Witness ==
  \E r1, r2 \in Reqs :
    /\ spc[r1] = "done" /\ sout[r1] = 404 /\ slog[r1] = <<"exists">>
    /\ spc[r2] = "done" /\ sout[r2] = 400 /\ slog[r2] = <<"exists", "get">>
    /\ sreq[r1].place_id = sreq[r2].place_id
    /\ places[sreq[r2].place_id] = NewRow
====
